---------------------------- MODULE Spec2Model ----------------------------
(* A model of the NodeLogger facade (src/unnamed/part_000) and of the       *)
(* GelfStream sink (src/lib/logger/stream/gelf.stream.ts).                   *)
(*                                                                           *)
(* Four specifications share the variables:                                  *)
(*   Spec        the request lifecycle hooks built by NodeLogger.create,     *)
(*               together with json() and log() on the root logger;          *)
(*   InitSpec    NodeLogger._init, the sink selection at construction;       *)
(*   GelfSpec    GelfStream.write;                                           *)
(*   HeaderSpec  Serializers.header, the cookie redaction.                   *)
EXTENDS Integers, Sequences, FiniteSets, TLC

VARIABLES
    isJSON,      \* this._settings.isJSON of the facade (shared by its children)
    hdr,         \* hdr[r]: req.headers['x-request-id'] of request r
    req,         \* req[r]: the fields the hooks read and write on request r
    resHeader,   \* resHeader[r]: the response's x-request-id header
    uuidCount,   \* how many ids uuidV4() has produced
    clock,       \* process.hrtime(), in milliseconds
    sink,        \* the records handed to the logging engine (this.info)
    rootCalls,   \* how many json() and log() calls the root logger has served
    last,        \* the latest call: its inputs, its calls of next, what it threw
    settings,    \* the Settings given to NodeLogger._init
    options,     \* the LoggerOptions _init returned, once it has run
    gelfSent,    \* the messages GelfStream.write emitted on the transport
    gelfLast,    \* the latest write: its record, its send attempts, what it threw
    headers,     \* the headers given to Serializers.header
    headerOut    \* its results: applied once, and applied to that result again

lifeVars == <<isJSON, hdr, req, resHeader, uuidCount, clock, sink, rootCalls, last>>
initVars == <<settings, options>>
gelfVars == <<gelfSent, gelfLast>>
headerVars == <<headers, headerOut>>
vars == <<lifeVars, initVars, gelfVars, headerVars>>

-----------------------------------------------------------------------------
(* Bounds of the model.                                                      *)

NumRequests == 2
MaxClock == 1
MaxRootCalls == 1

Requests == 1..NumRequests

-----------------------------------------------------------------------------
(* JavaScript values: tagged records, so that truthiness and property access *)
(* are computed as the language computes them.                               *)

Undefined == [t |-> "undefined"]
Null == [t |-> "null"]
Str(s) == [t |-> "str", s |-> s]
Num(n) == [t |-> "num", n |-> n]
Bool(b) == [t |-> "bool", b |-> b]
Obj(props) == [t |-> "obj", p |-> props]
Hrtime(ms) == [t |-> "hrtime", ms |-> ms]
ReqRef(r) == [t |-> "req", r |-> r]
EmptyProps == [k \in {} |-> Undefined]

\* !!v
Truthy(v) ==
    CASE v.t = "undefined" -> FALSE
      [] v.t = "null" -> FALSE
      [] v.t = "str" -> v.s # ""
      [] v.t = "num" -> v.n # 0
      [] v.t = "bool" -> v.b
      [] OTHER -> TRUE

\* v.k throws a TypeError exactly when v is null or undefined
Throws(v) == v.t \in {"undefined", "null"}

\* "k" in v, for an object
Has(v, k) == v.t = "obj" /\ k \in DOMAIN v.p

\* v.k, for a v that is neither null nor undefined
Get(v, k) == IF Has(v, k) THEN v.p[k] ELSE Undefined

\* typeof v === 'string'
IsString(v) == v.t = "str"

\* { ...v, k: x }
SpreadWith(v, k, x) ==
    LET old == IF v.t = "obj" THEN v.p ELSE EmptyProps
    IN  Obj([f \in (DOMAIN old) \cup {k} |-> IF f = k THEN x ELSE old[f]])

-----------------------------------------------------------------------------
(* Constants of the facade.                                                  *)

INCOMING_REQUEST_POSTFIX == Str("INCOMING_REQUEST")
SUCCESSFUL_RESPONSE_POSTFIX == Str("SUCCESSFUL_RESPONSE")
EXCEPTION_RESPONSE_POSTFIX == Str("EXCEPTION_RESPONSE")
JSON_LEVEL == 70
DEFAULT_ERROR_CODE == 400
SUCCESS_CODE == 200

\* uuidV4(): the n-th id produced; ids are fresh
uuidV4(n) == [t |-> "str", s |-> "uuid-v4", n |-> n]

-----------------------------------------------------------------------------
(* Inputs.                                                                   *)

InboundIds == {Undefined, Str(""), Str("abc-123")}

Results ==
    { Undefined, Null, Bool(FALSE),
      Obj([data |-> Num(1)]),
      Obj([stream |-> Obj(EmptyProps)]),
      Obj([stream |-> Null]) }

Errors ==
    { [statusCode |-> Num(404), name |-> Str("NotFound"), message |-> Str("missing")],
      [statusCode |-> Num(0), name |-> Str("Error"), message |-> Str("")],
      [statusCode |-> Num(500), name |-> Str("Error"),
       message |-> Obj([msg |-> Str("inner")])],
      [statusCode |-> Undefined, name |-> Str("Error"), message |-> Undefined],
      [statusCode |-> Num(500), name |-> Str("Error"), message |-> Null] }

JsonArgs == {Str("text"), Obj([a |-> Num(1)])}
LogKeys == {Str("k")}

-----------------------------------------------------------------------------
(* json(): the record the logger hands to this.info, or none.                *)

\* a logger: the facade's settings and the fields child() bound to it
Logger(fields) == Obj([isJSON |-> Bool(isJSON), fields |-> fields])

\* [{ level: 70 }, args] or [{ ...args, level: 70 }], then .concat(rest)
NewArgs(args, rest) ==
    IF IsString(args)
    THEN <<Obj([level |-> Num(JSON_LEVEL)]), args>> \o rest
    ELSE <<SpreadWith(args, "level", Num(JSON_LEVEL))>> \o rest

ArgAt(s, i) == IF i <= Len(s) THEN s[i] ELSE Undefined

\* this.info(concatArgs[0], concatArgs[1]) on a logger whose bound fields are
\* logger.p.fields; by is the request whose hook made the call (0: none)
json(by, logger, args, rest) ==
    IF ~Truthy(logger.p.isJSON)
    THEN <<>>
    ELSE LET concatArgs == NewArgs(args, rest)
         IN  << [by |-> by,
                 bound |-> logger.p.fields,
                 fields |-> ArgAt(concatArgs, 1),
                 msg |-> ArgAt(concatArgs, 2)] >>

\* log(): { [rest[0]]: rest[1] } goes out as stringData, arg as the message
log(by, logger, arg, rest) ==
    LET key == ArgAt(rest, 1)
        value == ArgAt(rest, 2)
        name == IF key.t = "str" THEN key.s ELSE key.t
        args == Obj([f \in {name} |-> value])
    IN  json(by, logger, Obj([stringData |-> args]), <<arg>>)

-----------------------------------------------------------------------------
(* The hooks NodeLogger.create installs.                                     *)

NoCall == [hook |-> "none", by |-> 0, err |-> Undefined, result |-> Undefined,
           next |-> <<>>, threw |-> FALSE, emitted |-> <<>>]

Call(hook, by, err, result, next, threw, emitted) ==
    [hook |-> hook, by |-> by, err |-> err, result |-> result,
     next |-> next, threw |-> threw, emitted |-> emitted]

\* let requestId = req.headers['x-request-id']; if (!requestId) requestId = uuidV4()
ChooseRequestId(inbound, fresh) == IF ~Truthy(inbound) THEN fresh ELSE inbound

\* res.setHeader('x-request-id', requestId) runs only in the if (!requestId) branch
HeaderAfterMiddleware(inbound, old, requestId) ==
    IF ~Truthy(inbound) THEN requestId ELSE old

\* a child logger created without the request's meta
ChildFields_NoMeta(meta) == Obj([__meta |-> Obj(EmptyProps), className |-> Str("server")])

\* logger.child({ __meta: meta, className: 'server' }, false)
ChildFields(meta) == Obj([__meta |-> meta, className |-> Str("server")])

\* if (!req.requestId || !req.timeStart) return next();
SkipsHook(rq) == ~Truthy(rq.requestId) \/ ~Truthy(rq.timeStart)

\* Timer.hrtimeToMs(process.hrtime(req.timeStart))
ElapsedMs(timeStart) == Num(clock - timeStart.ms)

\* if (!res.result && res.result !== null) return next();
ResultAbsent(result) == ~Truthy(result) /\ result # Null

\* the stream check left out
ResultIsStream_Never(result) == FALSE

\* if (res.result.stream) return next();
ResultIsStream(result) == Truthy(Get(result, "stream"))

\* err.message.msg || err.message
ErrorMessage(err) ==
    IF Truthy(Get(err.message, "msg")) THEN Get(err.message, "msg") ELSE err.message

\* !err.statusCode ? 400 : err.statusCode
ErrorCode(err) ==
    IF ~Truthy(err.statusCode) THEN Num(DEFAULT_ERROR_CODE) ELSE err.statusCode

\* the argument list of next(err) at the end of middlewareExceptionResponse
RaiseArgs(err) == <<err>>

\* the argument list of return next() on the early return of the error hook
EarlyReturnArgs(err) == <<>>

Finish(r, call) ==
    /\ last' = call
    /\ sink' = sink \cup {call.emitted[i] : i \in 1..Len(call.emitted)}

middleware(r) ==
    /\ req[r].pc = "new"
    /\ LET fresh == uuidV4(uuidCount + 1)
           requestId == ChooseRequestId(hdr[r], fresh)
           meta == Obj([requestId |-> requestId])
           child == Logger(ChildFields(meta))
           emitted == json(r, child, Obj([req |-> ReqRef(r)]),
                           <<INCOMING_REQUEST_POSTFIX>>)
       IN  /\ uuidCount' = IF ~Truthy(hdr[r]) THEN uuidCount + 1 ELSE uuidCount
           /\ resHeader' = [resHeader EXCEPT
                                ![r] = HeaderAfterMiddleware(hdr[r], @, requestId)]
           /\ req' = [req EXCEPT ![r].requestId = requestId,
                                 ![r].log = child,
                                 ![r].pc = "started"]
           /\ Finish(r, Call("middleware", r, Undefined, Undefined,
                             << <<>> >>, FALSE, emitted))
    /\ UNCHANGED <<initVars, gelfVars, headerVars, isJSON, hdr, clock, rootCalls>>

\* the request's handler responds: no hook runs twice for one request
Responds(r) ==
    /\ req[r].pc \in {"new", "started"}
    /\ req' = [req EXCEPT ![r].pc = "done"]
    /\ UNCHANGED <<initVars, gelfVars, headerVars, isJSON, hdr, resHeader, uuidCount, clock, rootCalls>>

middlewareSuccessfulShortResponse(r) ==
    /\ Responds(r)
    /\ IF SkipsHook(req[r])
       THEN Finish(r, Call("short", r, Undefined, Undefined, << <<>> >>, FALSE, <<>>))
       ELSE LET time == ElapsedMs(req[r].timeStart)
                payload == Obj([secureJsonData |->
                               Obj([code |-> Num(SUCCESS_CODE),
                                    meta |-> Obj([time |-> time])])])
            IN  IF Throws(req[r].log)
                THEN Finish(r, Call("short", r, Undefined, Undefined, <<>>, TRUE, <<>>))
                ELSE Finish(r, Call("short", r, Undefined, Undefined, << <<>> >>, FALSE,
                                    json(r, req[r].log, payload,
                                         <<SUCCESSFUL_RESPONSE_POSTFIX>>)))

middlewareSuccessfulResponse(r, result) ==
    /\ Responds(r)
    /\ IF SkipsHook(req[r])
       THEN Finish(r, Call("success", r, Undefined, result, << <<>> >>, FALSE, <<>>))
       ELSE LET time == ElapsedMs(req[r].timeStart)
                payload == Obj([secureJsonData |->
                               Obj([code |-> Num(SUCCESS_CODE),
                                    result |-> result,
                                    meta |-> Obj([requestId |-> req[r].requestId,
                                                  time |-> time])])])
            IN  IF ResultAbsent(result)
                THEN Finish(r, Call("success", r, Undefined, result,
                                    << <<>> >>, FALSE, <<>>))
                ELSE IF Throws(result)
                THEN Finish(r, Call("success", r, Undefined, result, <<>>, TRUE, <<>>))
                ELSE IF ResultIsStream(result)
                THEN Finish(r, Call("success", r, Undefined, result,
                                    << <<>> >>, FALSE, <<>>))
                ELSE IF Throws(req[r].log)
                THEN Finish(r, Call("success", r, Undefined, result, <<>>, TRUE, <<>>))
                ELSE Finish(r, Call("success", r, Undefined, result, << <<>> >>, FALSE,
                                    json(r, req[r].log, payload,
                                         <<SUCCESSFUL_RESPONSE_POSTFIX>>)))

middlewareExceptionResponse(r, err) ==
    /\ Responds(r)
    /\ IF SkipsHook(req[r])
       THEN Finish(r, Call("exception", r, err, Undefined,
                           <<EarlyReturnArgs(err)>>, FALSE, <<>>))
       ELSE LET time == ElapsedMs(req[r].timeStart)
            IN  IF Throws(err.message)
                THEN Finish(r, Call("exception", r, err, Undefined, <<>>, TRUE, <<>>))
                ELSE LET payload ==
                             Obj([secureJsonData |->
                                 Obj([error |-> Obj([code |-> ErrorCode(err),
                                                     name |-> err.name,
                                                     message |-> ErrorMessage(err)]),
                                      meta |-> Obj([requestId |-> req[r].requestId,
                                                    time |-> time])])])
                     IN  IF Throws(req[r].log)
                         THEN Finish(r, Call("exception", r, err, Undefined,
                                             <<>>, TRUE, <<>>))
                         ELSE Finish(r, Call("exception", r, err, Undefined,
                                             <<RaiseArgs(err)>>, FALSE,
                                             json(r, req[r].log, payload,
                                                  <<EXCEPTION_RESPONSE_POSTFIX>>)))

\* the caller stamps req.timeStart = process.hrtime() before the response hooks
SetTimeStart(r) ==
    /\ req[r].pc \in {"new", "started"}
    /\ req[r].timeStart = Undefined
    /\ req' = [req EXCEPT ![r].timeStart = Hrtime(clock)]
    /\ UNCHANGED <<initVars, gelfVars, headerVars, isJSON, hdr, resHeader, uuidCount, clock, sink, rootCalls, last>>

Tick ==
    /\ clock < MaxClock
    /\ clock' = clock + 1
    /\ UNCHANGED <<initVars, gelfVars, headerVars, isJSON, hdr, req, resHeader, uuidCount, sink, rootCalls, last>>

\* logger.json(args, ...rest) on the root logger
jsonCall(args) ==
    /\ rootCalls < MaxRootCalls
    /\ rootCalls' = rootCalls + 1
    /\ Finish(0, Call("json", 0, Undefined, args, <<>>, FALSE,
                      json(0, Logger(Obj(EmptyProps)), args, <<Str("EVENT")>>)))
    /\ UNCHANGED <<initVars, gelfVars, headerVars, isJSON, hdr, req, resHeader, uuidCount, clock>>

\* logger.log(arg, ...rest) on the root logger
logCall(arg, key) ==
    /\ rootCalls < MaxRootCalls
    /\ rootCalls' = rootCalls + 1
    /\ Finish(0, Call("log", 0, Undefined, arg, <<>>, FALSE,
                      log(0, Logger(Obj(EmptyProps)), arg, <<key, Num(1)>>)))
    /\ UNCHANGED <<initVars, gelfVars, headerVars, isJSON, hdr, req, resHeader, uuidCount, clock>>

NewRequest == [requestId |-> Undefined, timeStart |-> Undefined,
               log |-> Undefined, pc |-> "new"]

\* the components a specification does not exercise stay as constructed
LifeIdle ==
    /\ isJSON = FALSE
    /\ hdr = [r \in Requests |-> Undefined]
    /\ req = [r \in Requests |-> NewRequest]
    /\ resHeader = [r \in Requests |-> Undefined]
    /\ uuidCount = 0
    /\ clock = 0
    /\ sink = {}
    /\ rootCalls = 0
    /\ last = NoCall

InitIdle == settings = Undefined /\ options = Undefined
GelfIdle == gelfSent = <<>> /\ gelfLast = Undefined
HeaderIdle == headers = Undefined /\ headerOut = <<>>

Init ==
    /\ InitIdle /\ GelfIdle /\ HeaderIdle
    /\ isJSON \in BOOLEAN
    /\ hdr \in [Requests -> InboundIds]
    /\ req = [r \in Requests |-> NewRequest]
    /\ resHeader = [r \in Requests |-> Undefined]
    /\ uuidCount = 0
    /\ clock = 0
    /\ sink = {}
    /\ rootCalls = 0
    /\ last = NoCall

Next ==
    \/ \E r \in Requests : middleware(r)
    \/ \E r \in Requests : middlewareSuccessfulShortResponse(r)
    \/ \E r \in Requests, result \in Results : middlewareSuccessfulResponse(r, result)
    \/ \E r \in Requests, err \in Errors : middlewareExceptionResponse(r, err)
    \/ \E r \in Requests : SetTimeStart(r)
    \/ Tick
    \/ \E args \in JsonArgs : jsonCall(args)
    \/ \E arg \in JsonArgs, key \in LogKeys : logCall(arg, key)

Spec == Init /\ [][Next]_vars

-----------------------------------------------------------------------------
(* Properties of the request lifecycle, checked under Spec.                  *)

Hooks == {"middleware", "short", "success", "exception"}

\* middleware has run for request r
Started(r) == req[r].log # Undefined

\* what a record carries: the meta child() bound to the logger that wrote it,
\* and the payload the hook passed as secureJsonData
BoundMeta(rec) == Get(rec.bound, "__meta")
Payload(rec) == Get(rec.fields, "secureJsonData")
PayloadMeta(rec) == Get(Payload(rec), "meta")

\* C1: the error hook hands control to the next error handler exactly once,
\* with the error it was given, whatever the state of the request.
C1_AlwaysReraises ==
    last.hook = "exception" => (~last.threw /\ last.next = << <<last.err>> >>)

C2_Carried ==
    /\ \A rec \in sink :
          rec.by \in Requests =>
              /\ Get(BoundMeta(rec), "requestId") = req[rec.by].requestId
              /\ Has(PayloadMeta(rec), "requestId")
                    => Get(PayloadMeta(rec), "requestId") = req[rec.by].requestId
    /\ \A r \in Requests :
          Started(r) =>
              /\ Truthy(req[r].requestId)
              /\ req[r].requestId = ChooseRequestId(hdr[r], req[r].requestId)
    /\ \A r1, r2 \in Requests :
          (r1 # r2 /\ Started(r1) /\ Started(r2)
                   /\ req[r1].requestId = req[r2].requestId)
              => (Truthy(hdr[r1]) /\ hdr[r1] = hdr[r2])

C2_Stable ==
    \A r \in Requests : Started(r) => req'[r].requestId = req[r].requestId

C3_RoundTrip ==
    \A r \in Requests :
        Started(r) =>
            /\ Truthy(hdr[r]) => req[r].requestId = hdr[r]
            /\ ~Truthy(hdr[r]) => req[r].requestId.s = "uuid-v4"
            /\ resHeader[r] = req[r].requestId

\* C5: every hook completes without throwing and calls next exactly once.
C5_HooksNeverAbort ==
    last.hook \in Hooks => (~last.threw /\ Len(last.next) = 1)

\* C7: with isJSON false nothing is ever written and no call raises an error.
C7_DisabledIsNoOp ==
    ~isJSON => (sink = {} /\ ~last.threw)

\* C8 as stated: a record of the success hook never has a result with a stream
\* property, and nothing is emitted for an absent result.
C8_NoStreamProperty ==
    last.hook = "success" =>
        /\ \A i \in 1..Len(last.emitted) :
              ~Has(Get(Payload(last.emitted[i]), "result"), "stream")
        /\ last.result = Undefined => last.emitted = <<>>

\* C8, amended: a record of the success hook logs the response's result and that
\* result never has a truthy stream property (a stream property that is null,
\* false, 0 or empty is logged as it is); nothing is emitted for an undefined
\* result.
C8_NoTruthyStream ==
    last.hook = "success" =>
        /\ \A i \in 1..Len(last.emitted) :
              /\ Get(Payload(last.emitted[i]), "result") = last.result
              /\ ~Truthy(Get(last.result, "stream"))
        /\ last.result = Undefined => last.emitted = <<>>

\* the success hook has logged a result whose stream property is present
C8_Witness ==
    /\ last.hook = "success"
    /\ last.emitted # <<>>
    /\ Has(last.result, "stream")

\* C9: on a request with an id and a start time the error hook emits exactly
\* one record (on a facade that logs JSON), {error: {code, name, message},
\* meta: {requestId, time}}, with code the error's statusCode when it has one
\* and 400 otherwise, message the error's message, time the elapsed time.
C9_ErrorRecord ==
    (isJSON /\ last.hook = "exception" /\ ~SkipsHook(req[last.by])) =>
        /\ Len(last.emitted) = 1
        /\ Payload(last.emitted[1]) =
              Obj([error |-> Obj([code |-> IF last.err.statusCode # Undefined
                                           THEN last.err.statusCode
                                           ELSE Num(DEFAULT_ERROR_CODE),
                                  name |-> last.err.name,
                                  message |-> last.err.message]),
                   meta |-> Obj([requestId |-> req[last.by].requestId,
                                 time |-> ElapsedMs(req[last.by].timeStart)])])

-----------------------------------------------------------------------------
(* NodeLogger._init: the sink selection at construction.                     *)

DEFAULT_STREAM_TYPE == Str("raw")
DEFAULT_LEVEL == Str("INFO")

\* a stream binding the caller supplies in settings.streams
UserStream(name) == Obj([type |-> Str("stream"), level |-> Str("WARN"),
                         stream |-> Str(name)])

StreamLists ==
    { <<>>, <<UserStream("a")>>, <<UserStream("b")>>,
      <<UserStream("a"), UserStream("b")>> }

Flags == {Undefined, Bool(FALSE), Bool(TRUE)}

SettingsSet ==
    { [isMapper |-> m, isTrim |-> t, streams |-> st, level |-> lv] :
        m \in Flags, t \in Flags,
        st \in {Undefined} \cup {[t |-> "array", items |-> l] : l \in StreamLists},
        lv \in {Undefined, Str("DEBUG")} }

\* settings.level || NodeLogger.DEFAULT_LEVEL
LevelOf(st) == IF Truthy(st.level) THEN st.level ELSE DEFAULT_LEVEL

\* _createStream: a TrimStream when settings.isTrim, a MapperStream otherwise
_createStream(st) ==
    IF Truthy(st.isTrim) THEN Str("TrimStream") ELSE Str("MapperStream")

Binding(level, stream) ==
    Obj([type |-> DEFAULT_STREAM_TYPE, level |-> level, stream |-> stream])

\* settings.streams && settings.streams.length > 0
HasStreams(st) == Truthy(st.streams) /\ Len(st.streams.items) > 0

\* the branch of _init that fills streamList
SelectionPath(st) ==
    IF Truthy(st.isMapper) THEN "convenience"
    ELSE IF HasStreams(st) THEN "explicit"
    ELSE "default"

\* streamList as _init leaves it
StreamList(st) ==
    CASE SelectionPath(st) = "convenience" ->
             <<Binding(LevelOf(st), _createStream(st))>>
      [] SelectionPath(st) = "explicit" -> st.streams.items
      [] OTHER -> <<Binding(LevelOf(st), Str("BaseStream"))>>

_init ==
    /\ options = Undefined
    /\ options' = Obj([streams |-> [t |-> "array", items |-> StreamList(settings)],
                       path |-> Str(SelectionPath(settings))])
    /\ UNCHANGED <<lifeVars, gelfVars, headerVars, settings>>

\* the next logger is constructed from other settings
NewSettings ==
    /\ options # Undefined
    /\ settings' \in SettingsSet
    /\ options' = Undefined
    /\ UNCHANGED <<lifeVars, gelfVars, headerVars>>

InitInit ==
    /\ LifeIdle /\ GelfIdle /\ HeaderIdle
    /\ settings \in SettingsSet
    /\ options = Undefined

InitNext == _init \/ NewSettings

InitSpec == InitInit /\ [][InitNext]_vars

Built == options # Undefined
BuiltStreams == options.p.streams.items
IsConvenienceSink(b) == Get(b, "stream") \in {Str("TrimStream"), Str("MapperStream")}
IsDefaultSink(b) == Get(b, "stream") = Str("BaseStream")
Elements(seq) == {seq[i] : i \in 1..Len(seq)}

\* C4: explicit streams, when supplied, are exactly the stream list, also when
\* isMapper or isTrim is set; the Mapper/Trim sink is used only without explicit
\* streams; the BaseStream sink only when neither explicit streams nor the
\* Mapper/Trim path (isMapper) is configured.
C4_ExplicitStreamsFirst ==
    Built =>
        /\ HasStreams(settings) => BuiltStreams = settings.streams.items
        /\ (\E b \in Elements(BuiltStreams) : IsConvenienceSink(b))
              => ~HasStreams(settings)
        /\ (\E b \in Elements(BuiltStreams) : IsDefaultSink(b))
              => (/\ ~HasStreams(settings)
                  /\ ~Truthy(settings.isMapper))

-----------------------------------------------------------------------------
(* GelfStream.write.                                                         *)

MaxWrites == 3

Circular == [t |-> "circular"]
BigInt == [t |-> "bigint"]

GelfRecords ==
    { Obj([msg |-> Str("EVENT"), level |-> Num(JSON_LEVEL)]),
      Obj([msg |-> Str("EVENT")]),
      Obj([level |-> Num(JSON_LEVEL), meta |-> Obj([time |-> Num(1)])]),
      Obj([msg |-> Circular]),
      Obj([level |-> BigInt]) }

\* the order Object.keys lists the fields the records of the model have
KeyOrder == <<"msg", "level", "meta", "time">>

RECURSIVE Unserializable(_)
\* JSON.stringify throws a TypeError on a circular structure and on a BigInt
Unserializable(v) ==
    \/ v.t \in {"circular", "bigint"}
    \/ v.t = "obj" /\ \E k \in DOMAIN v.p : Unserializable(v.p[k])

RECURSIVE Stringify(_)
RECURSIVE StringifyFields(_, _, _)
\* JSON.stringify(v), as the sequence of its tokens
Stringify(v) ==
    CASE v.t = "str" -> <<"\"", v.s, "\"">>
      [] v.t = "num" -> <<ToString(v.n)>>
      [] v.t = "bool" -> <<IF v.b THEN "true" ELSE "false">>
      [] v.t = "null" -> <<"null">>
      [] v.t = "obj" -> <<"{">> \o StringifyFields(v, 1, TRUE) \o <<"}">>
      [] OTHER -> <<"undefined">>

StringifyFields(v, i, first) ==
    IF i > Len(KeyOrder) THEN <<>>
    ELSE IF KeyOrder[i] \notin DOMAIN v.p \/ v.p[KeyOrder[i]].t = "undefined"
    THEN StringifyFields(v, i + 1, first)
    ELSE (IF first THEN <<>> ELSE <<",">>)
         \o <<"\"", KeyOrder[i], "\"", ":">> \o Stringify(v.p[KeyOrder[i]])
         \o StringifyFields(v, i + 1, FALSE)

\* BaseStream._map(record): the record as the sink sends it
_map(record) == record

\* `${JSON.stringify(this._map(record))}\n`
GelfMessage(record) == Stringify(_map(record)) \o <<"\n">>

\* what write does with a failure of JSON.stringify or of the emit: the method
\* has no try/catch, the exception leaves it
WriteThrows(stringifyFails, emitFails) == stringifyFails \/ emitFails

\* write(record): emitFails says whether a listener of 'gelf.log' throws
write(record, emitFails) ==
    /\ Len(gelfSent) < MaxWrites
    /\ LET stringifyFails == Unserializable(_map(record))
           attempts == IF stringifyFails THEN 0 ELSE 1
       IN  /\ gelfSent' = IF stringifyFails \/ emitFails
                          THEN gelfSent
                          ELSE Append(gelfSent, GelfMessage(record))
           /\ gelfLast' = Obj([record |-> record,
                               attempts |-> Num(attempts),
                               threw |-> Bool(WriteThrows(stringifyFails, emitFails))])
    /\ UNCHANGED <<lifeVars, initVars, headerVars>>

GelfInit == LifeIdle /\ InitIdle /\ HeaderIdle /\ GelfIdle

GelfNext == \E record \in GelfRecords, emitFails \in BOOLEAN : write(record, emitFails)

GelfSpec == GelfInit /\ [][GelfNext]_vars

\* C6: a failure to serialize or to emit never leaves write, and write makes
\* at most one send attempt.
C6_WriteNeverThrows ==
    gelfLast # Undefined =>
        /\ ~Truthy(Get(gelfLast, "threw"))
        /\ Get(gelfLast, "attempts").n <= 1

-----------------------------------------------------------------------------
(* Serializers.header: the redaction of the cookie and authorization fields. *)
(* A string is the sequence of its characters.                               *)

MaxPieces == 4

SID == <<"s", "i", "d", "=">>
RM == <<"r", "m", "=">>
MASK == <<"*", "*", "*">>

\* HEADER_AUTHORIZATION_PATTERN
HEADER_AUTHORIZATION_PATTERN == MASK

Pieces == {SID, RM, <<";">>, <<"a">>, <<"=">>, <<"*">>}

RECURSIVE Concats(_)
\* the strings made of at most n pieces
Concats(n) ==
    IF n = 0 THEN {<<>>}
    ELSE Concats(n - 1) \cup {c \o q : c \in Concats(n - 1), q \in Pieces}

Cookies == Concats(MaxPieces)

Sub(str, from, to) == SubSeq(str, from, to)

\* key occurs in str at position i
OccursAt(str, key, i) ==
    i + Len(key) - 1 <= Len(str) /\ Sub(str, i, i + Len(key) - 1) = key

\* where the lazy .+? of a match whose value starts at position v stops: the
\* value takes one character at least, then ends before the first ';' or at
\* the end of the string
ValueEnd(str, v) ==
    IF \E e \in (v + 1)..Len(str) : str[e] = ";"
    THEN (CHOOSE e \in (v + 1)..Len(str) :
              str[e] = ";" /\ \A f \in (v + 1)..(e - 1) : str[f] # ";") - 1
    ELSE Len(str)

RECURSIVE ReplaceFrom(_, _, _)
\* str.replace(/(key).+?(;|$)/g, '$1***$2'), from position i on
ReplaceFrom(str, key, i) ==
    IF i > Len(str) THEN <<>>
    ELSE IF OccursAt(str, key, i) /\ i + Len(key) <= Len(str)
    THEN LET e == ValueEnd(str, i + Len(key))
         IN  IF e < Len(str)
             THEN key \o MASK \o <<";">> \o ReplaceFrom(str, key, e + 2)
             ELSE key \o MASK
    ELSE <<str[i]>> \o ReplaceFrom(str, key, i + 1)

\* .replace(HEADER_SID_REGEX, HEADER_REPLACE_PATTERN)
ReplaceSid(str) == ReplaceFrom(str, SID, 1)

\* .replace(HEADER_RM_REGEX, HEADER_REPLACE_PATTERN)
ReplaceRm(str) == ReplaceFrom(str, RM, 1)

\* the cookie field of the result of Serializers.header
RedactCookie(cookie) ==
    IF cookie # <<>> THEN ReplaceRm(ReplaceSid(cookie)) ELSE cookie

\* Serializers.header(headers)
header(h) ==
    [cookie |-> RedactCookie(h.cookie),
     authorization |-> IF h.authorization # <<>>
                       THEN HEADER_AUTHORIZATION_PATTERN
                       ELSE h.authorization]

HeaderSet ==
    { [cookie |-> c, authorization |-> a] : c \in Cookies, a \in {<<>>, <<"a">>} }

\* the serializer runs on the headers, and then again on its own result
Redact ==
    /\ headers # Undefined
    /\ Len(headerOut) < 2
    /\ headerOut' = Append(headerOut,
                           header(IF headerOut = <<>> THEN headers ELSE headerOut[1]))
    /\ UNCHANGED <<lifeVars, initVars, gelfVars, headers>>

HeaderInit ==
    /\ LifeIdle /\ InitIdle /\ GelfIdle
    /\ headers \in HeaderSet
    /\ headerOut = <<>>

HeaderNext == Redact

HeaderSpec == HeaderInit /\ [][HeaderNext]_vars

RECURSIVE Split(_)
\* the cookie pairs of a string: its pieces between the ';'
Split(str) ==
    IF \E i \in 1..Len(str) : str[i] = ";"
    THEN LET i == CHOOSE j \in 1..Len(str) :
                      str[j] = ";" /\ \A k \in 1..(j - 1) : str[k] # ";"
         IN  <<Sub(str, 1, i - 1)>> \o Split(Sub(str, i + 1, Len(str)))
    ELSE <<str>>

StartsWith(pair, key) == OccursAt(pair, key, 1)

\* what the claim allows as the redaction of one cookie pair
PairRedactedAsClaimed(pair, out) ==
    IF \E key \in {SID, RM} : StartsWith(pair, key)
    THEN LET key == CHOOSE k \in {SID, RM} : StartsWith(pair, k)
         IN  IF Len(pair) > Len(key) THEN out = key \o MASK
             ELSE out \in {pair, key \o MASK}
    ELSE out = pair

\* C10: the value of every sid= and rm= pair is replaced by the mask up to the
\* next ';' or the end, every other pair is kept verbatim (also a pair whose
\* name only ends in sid or rm, and a pair that follows an empty sid=/rm=
\* value), and redacting twice gives what redacting once gives.
C10_RedactsExactlyTheValue ==
    /\ Len(headerOut) >= 1 =>
          LET ins == Split(headers.cookie)
              outs == Split(headerOut[1].cookie)
          IN  /\ Len(outs) = Len(ins)
              /\ \A i \in 1..Len(ins) : PairRedactedAsClaimed(ins[i], outs[i])
    /\ Len(headerOut) = 2 => headerOut[2] = headerOut[1]

\* the part of C10 the code keeps: redaction is idempotent
C10_Idempotent ==
    Len(headerOut) = 2 => headerOut[2] = headerOut[1]
=============================================================================
